---- MODULE Spec2Model ----
(***************************************************************************)
(* Browser-based-upload (BBU) signing sessions of package fs4              *)
(* (src/fs4/fs4.go): NewBBU, AddCondition, Policy, Signature, FormFields,  *)
(* with the JSON / base64 / time formatting they rest on.                  *)
(*                                                                         *)
(* Go strings are TLA+ strings (ASCII); a Go map is a TLA+ function; a Go  *)
(* slice is a sequence.  HMAC-SHA256 is a free constructor: a digest is    *)
(* the tuple of what was hashed, so two digests are equal exactly when key *)
(* and message are.                                                        *)
(***************************************************************************)
EXTENDS Integers, Sequences, FiniteSets, TLC

\* Bound: AddCondition calls per session.
MaxAdd == 2

Nil == [nil |-> TRUE]

\* F applied to the value of e, with e evaluated once (a local variable of the code:
\* TLC evaluates a LET definition again at each of its uses).
Let(e, F(_)) == CHOOSE r \in {F(x) : x \in {e}} : TRUE

(***************************************************************************)
(* Strings                                                                 *)
(***************************************************************************)
Char(s, i) == SubSeq(s, i, i)

\* Printable ASCII without the backquote (code 96), which a TLA+ string cannot hold:
\* codes 32..95 and 97..126.
AsciiLow == " !\"#$%&'()*+,-./0123456789:;<=>?@ABCDEFGHIJKLMNOPQRSTUVWXYZ[\\]^_"
AsciiHigh == "abcdefghijklmnopqrstuvwxyz{|}~"

\* The character with byte value n.
Chr(n) == IF n < 96 THEN Char(AsciiLow, n - 31) ELSE Char(AsciiHigh, n - 96)

\* The byte value of a character.
Ord == [c \in {Chr(n) : n \in (32..126) \ {96}} |->
          CHOOSE n \in (32..126) \ {96} : Chr(n) = c]

Digits == "0123456789"

\* n >= 0 in decimal, left-padded with zeros to width w (time.Format's 2006, 01, 02, 15, 04, 05).
RECURSIVE Pad(_, _)
Pad(n, w) == IF w = 0 THEN "" ELSE Pad(n \div 10, w - 1) \o Char(Digits, (n % 10) + 1)

\* strings.Join(elems, sep)
RECURSIVE Join(_, _)
Join(elems, sep) ==
    IF Len(elems) = 0 THEN ""
    ELSE IF Len(elems) = 1 THEN elems[1]
    ELSE elems[1] \o sep \o Join(Tail(elems), sep)

\* Index of the first occurrence of the one-character string c in s at or after i; 0 if none.
RECURSIVE IndexFrom(_, _, _)
IndexFrom(s, c, i) ==
    IF i > Len(s) THEN 0
    ELSE IF Char(s, i) = c THEN i
    ELSE IndexFrom(s, c, i + 1)

\* strings.Split(s, sep)[0] for a one-character sep: s up to the first sep, all of s if none.
SplitFirst(s, sep) ==
    Let(IndexFrom(s, sep, 1), LAMBDA i : IF i = 0 THEN s ELSE SubSeq(s, 1, i - 1))

\* strings.Replace(s, old, "", -1) for a one-character old.
RECURSIVE RemoveAll(_, _)
RemoveAll(s, old) ==
    IF Len(s) = 0 THEN ""
    ELSE (IF Char(s, 1) = old THEN "" ELSE Char(s, 1)) \o RemoveAll(SubSeq(s, 2, Len(s)), old)

(***************************************************************************)
(* time.Time: an instant is [unixMin, sec, offMin]: minutes since the Unix *)
(* epoch, seconds within the minute, and the zone offset of its Location   *)
(* in minutes east of UTC.                                                 *)
(***************************************************************************)
\* Civil date of a day number (days since 1970-01-01), proleptic Gregorian.
CivilFromDays(days) ==
    LET z   == days + 719468
        era == z \div 146097
        doe == z - era * 146097
        yoe == (doe - doe \div 1460 + doe \div 36524 - doe \div 146096) \div 365
        doy == doe - (365 * yoe + yoe \div 4 - yoe \div 100)
        mp  == (5 * doy + 2) \div 153
        d   == doy - (153 * mp + 2) \div 5 + 1
        m   == IF mp < 10 THEN mp + 3 ELSE mp - 9
        y   == yoe + era * 400 + (IF m <= 2 THEN 1 ELSE 0)
    IN  [year |-> y, month |-> m, day |-> d]

\* t.Add(time.Duration(n) * time.Minute)
AddMinutes(t, n) == [t EXCEPT !.unixMin = @ + n]

\* Wall clock of t in its own Location.
Wall(t) ==
    Let(t.unixMin + t.offMin, LAMBDA local :
    Let(CivilFromDays(local \div 1440), LAMBDA date :
        [year |-> date.year, month |-> date.month, day |-> date.day,
         hour |-> (local % 1440) \div 60, minute |-> local % 60, second |-> t.sec]))

\* The "2006-01-02" part of a layout, for wall clock w.
FormatYMD(w) == Pad(w.year, 4) \o "-" \o Pad(w.month, 2) \o "-" \o Pad(w.day, 2)

\* t.Format("2006-01-02")
FormatDate(t) == Let(Wall(t), LAMBDA w : FormatYMD(w))

\* The "Z07:00" element of a layout: "Z" for offset zero, else +hh:mm or -hh:mm.
FormatZone(offMin) ==
    IF offMin = 0 THEN "Z"
    ELSE IF offMin < 0 THEN "-" \o Pad((-offMin) \div 60, 2) \o ":" \o Pad((-offMin) % 60, 2)
    ELSE "+" \o Pad(offMin \div 60, 2) \o ":" \o Pad(offMin % 60, 2)

\* t.Format(time.RFC3339), layout "2006-01-02T15:04:05Z07:00"
FormatRFC3339(t) ==
    Let(Wall(t), LAMBDA w :
        FormatYMD(w) \o "T" \o Pad(w.hour, 2) \o ":" \o Pad(w.minute, 2) \o ":"
          \o Pad(w.second, 2) \o FormatZone(t.offMin))

\* dateString: "yyyymmdd"
dateString(now) == RemoveAll(FormatDate(now), "-")

\* dateStringISO
dateStringISO(ds) == ds \o "T000000Z"

\* expirationDate
expirationDate(now, timeToExpiry) ==
    Let(FormatRFC3339(AddMinutes(now, timeToExpiry)), LAMBDA expiration :
        SplitFirst(expiration, "+") \o ".000Z")

(***************************************************************************)
(* encoding/json, as json.Marshal renders the types used here              *)
(***************************************************************************)
\* The escape of one character inside a JSON string (HTML-safe, as json.Marshal).
EscapeChar(c) ==
    IF c = "\"" THEN "\\\""
    ELSE IF c = "\\" THEN "\\\\"
    ELSE IF c = "<" THEN "\\u003c"
    ELSE IF c = ">" THEN "\\u003e"
    ELSE IF c = "&" THEN "\\u0026"
    ELSE c

\* The escapes of characters lo..hi of s, concatenated.
RECURSIVE EscapeRange(_, _, _)
EscapeRange(s, lo, hi) ==
    IF lo > hi THEN ""
    ELSE IF lo = hi THEN EscapeChar(Char(s, lo))
    ELSE LET mid == (lo + hi) \div 2
         IN  EscapeRange(s, lo, mid) \o EscapeRange(s, mid + 1, hi)

Escape(s) == EscapeRange(s, 1, Len(s))

\* A Go string as a JSON string.
jsonString(s) == "\"" \o Escape(s) \o "\""

\* A map[string]string as a JSON object.  Every map the package builds holds one key.
jsonMap(m) ==
    IF DOMAIN m = {} THEN "{}"
    ELSE LET k == CHOOSE k \in DOMAIN m : TRUE
         IN  "{" \o jsonString(k) \o ":" \o jsonString(m[k]) \o "}"

\* A []map[string]string as a JSON array.
jsonMaps(maps) == "[" \o Join([i \in 1..Len(maps) |-> jsonMap(maps[i])], ",") \o "]"

\* A variant of bbuParamsFields in which SecretKey carries no json tag.
bbuParamsFields_untagged ==
    << [go |-> "Conditions", json |-> "conditions", kind |-> "maps"],
       [go |-> "Expiration", json |-> "expiration", kind |-> "string"],
       [go |-> "SecretKey",  json |-> "SecretKey",  kind |-> "string"],
       [go |-> "Policy64",   json |-> "-",          kind |-> "string"],
       [go |-> "Region",     json |-> "-",          kind |-> "string"],
       [go |-> "Date",       json |-> "-",          kind |-> "string"] >>

\* The fields of struct bbuParams in declaration order, with their json tags.
bbuParamsFields ==
    << [go |-> "Conditions", json |-> "conditions", kind |-> "maps"],
       [go |-> "Expiration", json |-> "expiration", kind |-> "string"],
       [go |-> "SecretKey",  json |-> "-",          kind |-> "string"],
       [go |-> "Policy64",   json |-> "-",          kind |-> "string"],
       [go |-> "Region",     json |-> "-",          kind |-> "string"],
       [go |-> "Date",       json |-> "-",          kind |-> "string"] >>

\* A struct as a JSON object: its fields in declaration order, those tagged "-" left out.
jsonStruct(v, fields) ==
    LET kept   == SelectSeq(fields, LAMBDA f : f.json # "-")
        member(f) == jsonString(f.json) \o ":" \o
                       (IF f.kind = "maps" THEN jsonMaps(v[f.go]) ELSE jsonString(v[f.go]))
    IN  "{" \o Join([i \in 1..Len(kept) |-> member(kept[i])], ",") \o "}"

(***************************************************************************)
(* encoding/base64, StdEncoding                                            *)
(***************************************************************************)
encodeStd == "ABCDEFGHIJKLMNOPQRSTUVWXYZabcdefghijklmnopqrstuvwxyz0123456789+/"

Sextet(n) == Char(encodeStd, n + 1)

\* The encoding of the 3-byte group that starts at byte i of src; the last group may
\* hold 1 or 2 bytes and is padded with "=".
EncodeGroup(src, i) ==
    LET remain == Len(src) - i + 1
        b1 == Ord[Char(src, i)]
        b2 == Ord[Char(src, i + 1)]
        b3 == Ord[Char(src, i + 2)]
    IN  IF remain = 1 THEN
            Sextet(b1 \div 4) \o Sextet((b1 % 4) * 16) \o "=="
        ELSE IF remain = 2 THEN
            Sextet(b1 \div 4) \o Sextet((b1 % 4) * 16 + b2 \div 16)
              \o Sextet((b2 % 16) * 4) \o "="
        ELSE
            Sextet(b1 \div 4) \o Sextet((b1 % 4) * 16 + b2 \div 16)
              \o Sextet((b2 % 16) * 4 + b3 \div 64) \o Sextet(b3 % 64)

\* The encodings of groups lo..hi of src, concatenated.
RECURSIVE EncodeGroups(_, _, _)
EncodeGroups(src, lo, hi) ==
    IF lo > hi THEN ""
    ELSE IF lo = hi THEN EncodeGroup(src, 3 * lo - 2)
    ELSE LET mid == (lo + hi) \div 2
         IN  EncodeGroups(src, lo, mid) \o EncodeGroups(src, mid + 1, hi)

\* base64.StdEncoding.EncodeToString
EncodeToString(src) == EncodeGroups(src, 1, (Len(src) + 2) \div 3)

(***************************************************************************)
(* crypto/hmac with sha256: a hash.Hash is the pair it was keyed and fed    *)
(* with; Sum and hex.EncodeToString wrap it.                               *)
(***************************************************************************)
Sum(h) == [sum |-> h]

hexEncodeToString(bytes) == [hex |-> bytes]

\* shmacSHA256
shmacSHA256(key, message) == [hmac |-> "sha256", key |-> key, message |-> message]

\* hmacSHA256
hmacSHA256(key, message) == shmacSHA256(Sum(key), message)

\* hmacToHex
hmacToHex(key, message) == hexEncodeToString(Sum(hmacSHA256(key, message)))

(***************************************************************************)
(* Package fs4strings                                                      *)
(***************************************************************************)
AWS4HmacSha256 == "AWS4-HMAC-SHA256"
CredentialScope == "s3/aws4_request"
Key == "key"
XAMZCredential == "x-amz-credential"
XAMZAlgorithm == "x-amz-algorithm"
XAMZDate == "x-amz-date"
Bucket == "bucket"
SuccessActionRedirect == "success_action_redirect"

(***************************************************************************)
(* Inputs                                                                  *)
(***************************************************************************)
\* S3Config values handed to NewClient.
Configs ==
    { [AccessKey |-> "AKIA123", SecretKey |-> "s3cr3t", Bucket |-> "mybucket",
       Region |-> "us-east-1", Accelerate |-> TRUE] }

\* (time.Now(), minutesToExpiry) at NewBBU: 2024-03-05T14:30:00Z in UTC with 10 minutes,
\* the same instant in a zone five hours west with -10 minutes, and
\* 2024-12-31T23:55:07Z in a zone one hour east with 0 minutes.
Clocks ==
    { << [unixMin |-> 28494150, sec |-> 0, offMin |-> 0],    10 >>,
      << [unixMin |-> 28494150, sec |-> 0, offMin |-> -300], -10 >>,
      << [unixMin |-> 28928155, sec |-> 7, offMin |-> 60],   0 >> }

\* (key, value) arguments of AddCondition.
CallerConditions ==
    { <<"key", "up/a.png">>,
      <<"key", "q\"<b>">>,
      <<"success_action_redirect", "http://h/?a=1&b=2">>,
      <<"bucket", "other">>,
      <<"x-amz-credential", "forged">>,
      <<"x-custom", "">> }

(***************************************************************************)
(* State                                                                   *)
(***************************************************************************)
VARIABLES
    config,        \* FS4.config: the S3Config the client was built with
    bbu,           \* FS4.BBU: the current session, Nil before the first NewBBU
    ret,           \* the last call: its name, arguments and return value; for FormFields
                   \*   also the session before the call (pre) and ffOut before it (seen);
                   \*   marshalErr: whether json.Marshal failed during the call
    added,         \* history: the AddCondition arguments of this session, in call order
    history,       \* which of the two histories below is kept: "output" or "cache"
    ffOut,         \* history "output": the FormFields results since the session's
                   \*   conditions last changed
    computed,      \* history "cache": << >>, or <<p64>> for the base64 policy the session
                   \*   returned or signed before any AddCondition
    marshalFault   \* whether json.Marshal of bbuParams returns an error

vars == <<config, bbu, ret, added, history, ffOut, computed, marshalFault>>

(***************************************************************************)
(* S3Config and BBU                                                        *)
(***************************************************************************)
\* S3Config.credential
credential(c, ds) == Join(<<c.AccessKey, ds, c.Region, CredentialScope>>, "/")

\* A variant of setDefaultConditions with x-amz-date ahead of x-amz-algorithm.
setDefaultConditions_dateFirst(b, cfg) ==
    [b EXCEPT !.Conditions = << (Bucket :> cfg.Bucket),
                                (XAMZCredential :> b.Credential),
                                (XAMZDate :> b.DateStringISO),
                                (XAMZAlgorithm :> AWS4HmacSha256) >>]

\* BBU.setDefaultConditions
setDefaultConditions(b, cfg) ==
    [b EXCEPT !.Conditions = << (Bucket :> cfg.Bucket),
                                (XAMZCredential :> b.Credential),
                                (XAMZAlgorithm :> AWS4HmacSha256),
                                (XAMZDate :> b.DateStringISO) >>]

\* FS4.NewBBU; fields the composite literal leaves out hold their zero values.
NewBBU(cfg, now, minutesToExpiry) ==
    Let(dateString(now), LAMBDA ds :
        setDefaultConditions(
            [Conditions      |-> << >>,
             DateStringISO   |-> dateStringISO(ds),
             Credential      |-> credential(cfg, ds),
             minutesToExpiry |-> 0,
             expiration      |-> expirationDate(now, minutesToExpiry),
             dateString      |-> ds,
             secretKey       |-> "",
             region          |-> ""],
            cfg))

\* A variant of AddCondition that overwrites the last condition holding the same key.
AddCondition_overwrite(b, key, value) ==
    LET hits == {i \in 1..Len(b.Conditions) : key \in DOMAIN b.Conditions[i]}
    IN  IF hits = {} THEN [b EXCEPT !.Conditions = Append(@, key :> value)]
        ELSE [b EXCEPT !.Conditions[CHOOSE i \in hits : \A j \in hits : j <= i] =
                           (key :> value)]

\* BBU.AddCondition
AddCondition(b, key, value) == [b EXCEPT !.Conditions = Append(@, key :> value)]

\* BBU.conditionForKey: the loop from index i on.
RECURSIVE conditionForKeyFrom(_, _, _)
conditionForKeyFrom(b, key, i) ==
    IF i > Len(b.Conditions) THEN ""
    ELSE IF key \in DOMAIN b.Conditions[i] THEN b.Conditions[i][key]
    ELSE conditionForKeyFrom(b, key, i + 1)

\* A variant of conditionForKey that returns the last match.
conditionForKey_last(b, key) ==
    LET hits == {i \in 1..Len(b.Conditions) : key \in DOMAIN b.Conditions[i]}
    IN  IF hits = {} THEN ""
        ELSE b.Conditions[CHOOSE i \in hits : \A j \in hits : j <= i][key]

conditionForKey(b, key) == conditionForKeyFrom(b, key, 1)

\* BBU.toParams
toParams(b, cfg) ==
    [Conditions |-> b.Conditions,
     Expiration |-> b.expiration,
     SecretKey  |-> cfg.SecretKey,
     Policy64   |-> "",
     Region     |-> cfg.Region,
     Date       |-> b.dateString]

\* A variant of bucketURL that names the bucket by the access key.
bucketURL_accessKey(cfg) ==
    LET s3s == IF cfg.Accelerate THEN ".s3-accelerate" ELSE ".s3"
    IN  "http://" \o cfg.AccessKey \o s3s \o ".amazonaws.com/"

\* BBU.bucketURL
bucketURL(cfg) ==
    LET s3s == IF cfg.Accelerate THEN ".s3-accelerate" ELSE ".s3"
    IN  "http://" \o cfg.Bucket \o s3s \o ".amazonaws.com/"

\* json.Marshal(bbu) in toPolicy: (bytes, err).
jsonMarshal(p) ==
    IF marshalFault THEN [bytes |-> "", err |-> TRUE]
    ELSE [bytes |-> jsonStruct(p, bbuParamsFields), err |-> FALSE]

\* A variant of toPolicy with a value receiver: Policy64 is not stored in the params.
toPolicy_valueReceiver(p) ==
    Let(jsonMarshal(p), LAMBDA m :
        IF m.err THEN [p |-> p, ret |-> ""]
        ELSE Let(EncodeToString(m.bytes), LAMBDA p64 : [p |-> p, ret |-> p64]))

\* bbuParams.toPolicy (pointer receiver): the params after the call and the result.
toPolicy(p) ==
    Let(jsonMarshal(p), LAMBDA m :
        IF m.err THEN [p |-> p, ret |-> ""]
        ELSE Let(EncodeToString(m.bytes), LAMBDA p64 :
                 [p |-> [p EXCEPT !.Policy64 = p64], ret |-> p64]))

\* A variant of toSignature that signs Policy64 as it finds it.
toSignature_noPolicy(p) ==
    Let(p, LAMBDA q :
        LET dateKey == shmacSHA256("AWS4" \o q.SecretKey, q.Date)
            dateRegionKey == hmacSHA256(dateKey, q.Region)
            dateRegionServiceKey == hmacSHA256(dateRegionKey, "s3")
            signingKey == hmacSHA256(dateRegionServiceKey, "aws4_request")
        IN  [p |-> q, ret |-> hmacToHex(signingKey, q.Policy64)])

\* bbuParams.toSignature (pointer receiver): the params after the call and the result.
toSignature(p) ==
    Let(IF p.Policy64 = "" THEN toPolicy(p).p ELSE p, LAMBDA q :
        LET dateKey == shmacSHA256("AWS4" \o q.SecretKey, q.Date)
            dateRegionKey == hmacSHA256(dateKey, q.Region)
            dateRegionServiceKey == hmacSHA256(dateRegionKey, "s3")
            signingKey == hmacSHA256(dateRegionServiceKey, "aws4_request")
        IN  [p |-> q, ret |-> hmacToHex(signingKey, q.Policy64)])

\* BBU.Policy
Policy(b, cfg) == toPolicy(toParams(b, cfg)).ret

\* BBU.Signature
Signature(b, cfg) == toSignature(toParams(b, cfg)).ret

\* The fields of struct BBUResponse in declaration order, with their json tags.
BBUResponseFields ==
    << [go |-> "URL",         json |-> "url"],
       [go |-> "RedirectURI", json |-> "success_action_redirect"],
       [go |-> "Algorithm",   json |-> "x_amz_algorithm"],
       [go |-> "Credential",  json |-> "x_amz_credential"],
       [go |-> "AccessKey",   json |-> "aws_access_key_id"],
       [go |-> "Signature",   json |-> "signature"],
       [go |-> "Policy",      json |-> "policy"],
       [go |-> "Date",        json |-> "x_amz_date"],
       [go |-> "Key",         json |-> "key"] >>

\* json.Marshal(bbuResponse): the members of the flat object, in order, as (name, value).
jsonResponse(r) ==
    [i \in 1..Len(BBUResponseFields) |->
        <<BBUResponseFields[i].json, r[BBUResponseFields[i].go]>>]

\* A variant of FormFields that stores the policy among the session's conditions.
FormFields_storing(b, cfg) ==
    Let(toPolicy(toParams(b, cfg)), LAMBDA pol :
    Let(toSignature(pol.p), LAMBDA sig :
        LET redirectURI == conditionForKey(b, SuccessActionRedirect)
            key         == conditionForKey(b, Key)
            bbuResponse ==
                [URL         |-> bucketURL(cfg),
                 RedirectURI |-> redirectURI,
                 AccessKey   |-> cfg.AccessKey,
                 Algorithm   |-> AWS4HmacSha256,
                 Credential  |-> credential(cfg, b.dateString),
                 Key         |-> key,
                 Date        |-> b.DateStringISO,
                 Policy      |-> pol.ret,
                 Signature   |-> sig.ret]
        IN  [bbu |-> AddCondition(b, "policy", pol.ret),
             bytes |-> jsonResponse(bbuResponse), err |-> FALSE]))

\* BBU.FormFields (pointer receiver): the session after the call and ([]byte, error).
\* The calls in the composite literal run in source order: toPolicy, then toSignature
\* on the same bbuParams.
FormFields(b, cfg) ==
    Let(toPolicy(toParams(b, cfg)), LAMBDA pol :
    Let(toSignature(pol.p), LAMBDA sig :
        LET redirectURI == conditionForKey(b, SuccessActionRedirect)
            key         == conditionForKey(b, Key)
            bbuResponse ==
                [URL         |-> bucketURL(cfg),
                 RedirectURI |-> redirectURI,
                 AccessKey   |-> cfg.AccessKey,
                 Algorithm   |-> AWS4HmacSha256,
                 Credential  |-> credential(cfg, b.dateString),
                 Key         |-> key,
                 Date        |-> b.DateStringISO,
                 Policy      |-> pol.ret,
                 Signature   |-> sig.ret]
        IN  [bbu |-> b, bytes |-> jsonResponse(bbuResponse), err |-> FALSE]))

(***************************************************************************)
(* The state machine: a client and the calls made on its current session   *)
(***************************************************************************)
\* The state after NewClient, keeping history h.
InitWith(h) ==
    /\ config \in Configs
    /\ bbu = Nil
    /\ ret = [op |-> "NewClient"]
    /\ added = << >>
    /\ history = h
    /\ ffOut = {}
    /\ computed = << >>
    /\ marshalFault = FALSE

Init == InitWith("output")

InitCache == InitWith("cache")

\* The message a signature was computed over (HMAC is a free constructor).
Signed(sig) == sig.hex.sum.message

\* The value of the member called name of a marshalled BBUResponse.
Member(bytes, name) ==
    bytes[CHOOSE i \in 1..Len(bytes) : bytes[i][1] = name][2]

\* History "cache" after a call returned or signed base64 policy p64.
Remember(p64) ==
    IF history = "cache" /\ computed = << >> /\ added = << >> THEN <<p64>> ELSE computed

\* History "output" after FormFields returned bytes.
Collect(bytes) ==
    IF history = "output" THEN ffOut \cup {bytes} ELSE ffOut

CallNewBBU ==
    \E clock \in Clocks :
        /\ bbu' = NewBBU(config, clock[1], clock[2])
        /\ ret' = [op |-> "NewBBU", now |-> clock[1], minutesToExpiry |-> clock[2],
                   prior |-> IF bbu = Nil THEN 0 ELSE Len(bbu.Conditions)]
        /\ added' = << >>
        /\ computed' = << >>
        /\ ffOut' = {}
        /\ UNCHANGED <<config, history, marshalFault>>

CallAddCondition ==
    /\ bbu # Nil
    /\ Len(added) < MaxAdd
    /\ \E c \in CallerConditions :
        /\ bbu' = AddCondition(bbu, c[1], c[2])
        /\ ret' = [op |-> "AddCondition", key |-> c[1], value |-> c[2]]
        /\ added' = Append(added, c)
    /\ ffOut' = {}
    /\ UNCHANGED <<config, history, computed, marshalFault>>

CallPolicy ==
    /\ bbu # Nil
    /\ ret' = [op |-> "Policy", val |-> Policy(bbu, config), marshalErr |-> marshalFault]
    /\ computed' = Remember(ret'.val)
    /\ UNCHANGED <<config, bbu, added, history, ffOut, marshalFault>>

CallSignature ==
    /\ bbu # Nil
    /\ ret' = [op |-> "Signature", val |-> Signature(bbu, config), marshalErr |-> marshalFault]
    /\ computed' = Remember(Signed(ret'.val))
    /\ UNCHANGED <<config, bbu, added, history, ffOut, marshalFault>>

CallFormFields ==
    /\ bbu # Nil
    /\ \E r \in {FormFields(bbu, config)} :
        /\ bbu' = r.bbu
        /\ ret' = [op |-> "FormFields", bytes |-> r.bytes, err |-> r.err, pre |-> bbu,
                   seen |-> ffOut, marshalErr |-> marshalFault]
        /\ ffOut' = Collect(r.bytes)
        /\ computed' = Remember(Member(r.bytes, "policy"))
    /\ UNCHANGED <<config, added, history, marshalFault>>

Next ==
    \/ CallNewBBU
    \/ CallAddCondition
    \/ CallPolicy
    \/ CallSignature
    \/ CallFormFields

\* Calls on a client, with the outputs of FormFields recorded.
Spec == Init /\ [][Next]_vars

\* The same calls, with the first base64 policy of a session recorded.
SpecCache == InitCache /\ [][Next]_vars

\* json.Marshal starts to fail, or stops failing.
MarshalFaultFlips ==
    /\ marshalFault' = ~marshalFault
    /\ UNCHANGED <<config, bbu, ret, added, history, ffOut, computed>>

NextFault == Next \/ MarshalFaultFlips

\* The same calls, with json.Marshal failing at times.
SpecFault == Init /\ [][NextFault]_vars

(***************************************************************************)
(* Reading a policy back: base64 decoding and JSON parsing, as the storage *)
(* service does with the policy field.                                     *)
(***************************************************************************)
\* The character at position i of s, "" outside s.
At(s, i) == IF i >= 1 /\ i <= Len(s) THEN Char(s, i) ELSE ""

\* The value of a base64 character.
SextetValue == [c \in {Sextet(n) : n \in 0..63} |-> CHOOSE n \in 0..63 : Sextet(n) = c]

PadOr(c) == IF c = "=" THEN 0 ELSE SextetValue[c]

\* The bytes of the 4-character group that starts at position i of s.
DecodeGroup(s, i) ==
    Let(PadOr(Char(s, i)) * 262144 + PadOr(Char(s, i + 1)) * 4096
          + PadOr(Char(s, i + 2)) * 64 + PadOr(Char(s, i + 3)), LAMBDA val :
        Chr(val \div 65536)
          \o (IF Char(s, i + 2) = "=" THEN "" ELSE Chr((val \div 256) % 256))
          \o (IF Char(s, i + 3) = "=" THEN "" ELSE Chr(val % 256)))

RECURSIVE DecodeGroups(_, _, _)
DecodeGroups(s, lo, hi) ==
    IF lo > hi THEN ""
    ELSE IF lo = hi THEN DecodeGroup(s, 4 * lo - 3)
    ELSE LET mid == (lo + hi) \div 2
         IN  DecodeGroups(s, lo, mid) \o DecodeGroups(s, mid + 1, hi)

\* The bytes a standard base64 text stands for.
DecodeString(s) == DecodeGroups(s, 1, Len(s) \div 4)

HexDigits == "0123456789abcdef"

HexValue == [c \in {Char(HexDigits, n) : n \in 1..16} |->
               (CHOOSE n \in 1..16 : Char(HexDigits, n) = c) - 1]

\* The position of the quote that closes the JSON string whose first character is at
\* lo: the first quote not preceded by an odd run of backslashes; 0 if there is none.
Escaped(s, lo, j) ==
    \E run \in 1..(j - lo) :
        /\ run % 2 = 1
        /\ \A t \in 1..run : Char(s, j - t) = "\\"
        /\ (j - run = lo \/ Char(s, j - run - 1) # "\\")

Closes(s, lo, j) == Char(s, j) = "\"" /\ ~Escaped(s, lo, j)

StringEnd(s, lo) ==
    IF \E j \in lo..Len(s) : Closes(s, lo, j)
    THEN CHOOSE j \in lo..Len(s) : Closes(s, lo, j) /\ \A k \in lo..(j - 1) : ~Closes(s, lo, k)
    ELSE 0

\* The text of the JSON string body s[lo..hi], escapes resolved.
Unescape(s, lo, hi) ==
    LET un[i \in lo..(hi + 6)] ==
            IF i > hi THEN ""
            ELSE IF Char(s, i) # "\\" THEN Char(s, i) \o un[i + 1]
            ELSE IF Char(s, i + 1) = "u" THEN
                Chr(HexValue[Char(s, i + 2)] * 4096 + HexValue[Char(s, i + 3)] * 256
                      + HexValue[Char(s, i + 4)] * 16 + HexValue[Char(s, i + 5)])
                  \o un[i + 6]
            ELSE Char(s, i + 1) \o un[i + 2]
    IN  un[lo]

ParseError == [t |-> "error", v |-> << >>, next |-> 0]

\* The JSON string that opens at position i of s.
ParseString(s, i) ==
    Let(StringEnd(s, i + 1), LAMBDA e :
        IF e = 0 THEN ParseError
        ELSE [t |-> "string", v |-> Unescape(s, i + 1, e - 1), next |-> e + 1])

Strip(val) == [t |-> val.t, v |-> val.v]

\* The JSON value at position i of s: [t, v, next] with t its type, v its text (string),
\* elements (array) or (name, value) members in order (object), next the position
\* after it.
RECURSIVE ParseValue(_, _), ParseMembers(_, _, _), ParseElements(_, _, _)
ParseValue(s, i) ==
    IF At(s, i) = "\"" THEN ParseString(s, i)
    ELSE IF At(s, i) = "{" THEN
        IF At(s, i + 1) = "}" THEN [t |-> "object", v |-> << >>, next |-> i + 2]
        ELSE ParseMembers(s, i + 1, << >>)
    ELSE IF At(s, i) = "[" THEN
        IF At(s, i + 1) = "]" THEN [t |-> "array", v |-> << >>, next |-> i + 2]
        ELSE ParseElements(s, i + 1, << >>)
    ELSE ParseError

ParseMembers(s, i, acc) ==
    IF At(s, i) # "\"" THEN ParseError
    ELSE Let(ParseString(s, i), LAMBDA name :
        IF name.t = "error" \/ At(s, name.next) # ":" THEN ParseError
        ELSE Let(ParseValue(s, name.next + 1), LAMBDA val :
            IF val.t = "error" THEN ParseError
            ELSE Let(Append(acc, <<name.v, Strip(val)>>), LAMBDA members :
                IF At(s, val.next) = "," THEN ParseMembers(s, val.next + 1, members)
                ELSE IF At(s, val.next) = "}" THEN
                    [t |-> "object", v |-> members, next |-> val.next + 1]
                ELSE ParseError)))

ParseElements(s, i, acc) ==
    Let(ParseValue(s, i), LAMBDA val :
        IF val.t = "error" THEN ParseError
        ELSE Let(Append(acc, Strip(val)), LAMBDA elements :
            IF At(s, val.next) = "," THEN ParseElements(s, val.next + 1, elements)
            ELSE IF At(s, val.next) = "]" THEN
                [t |-> "array", v |-> elements, next |-> val.next + 1]
            ELSE ParseError))

\* The JSON document s, or an error value if s is not one JSON value.
ParseJSON(s) ==
    Let(ParseValue(s, 1), LAMBDA doc :
        IF doc.t # "error" /\ doc.next = Len(s) + 1 THEN Strip(doc)
        ELSE Strip(ParseError))

(***************************************************************************)
(* Properties                                                              *)
(***************************************************************************)
\* The message authentication code of message under key, as bytes.
Mac(key, message) == [sum |-> [hmac |-> "sha256", key |-> key, message |-> message]]

\* The AWS Signature Version 4 signing key for service s3.
DeriveSigningKey(secretKey, compactDate, region) ==
    Mac(Mac(Mac(Mac("AWS4" \o secretKey, compactDate), region), "s3"), "aws4_request")

\* The lowercase hex text of the code of message under key.
SignHex(key, message) == [hex |-> Mac(key, message)]

\* The four conditions a new session b of a client configured with cfg starts with.
DefaultConditions(b, cfg) ==
    << ("bucket" :> cfg.Bucket),
       ("x-amz-credential" :> b.Credential),
       ("x-amz-algorithm" :> "AWS4-HMAC-SHA256"),
       ("x-amz-date" :> b.DateStringISO) >>

\* The value of the first (key, value) pair of pairs that has key; "" if none has.
FirstValue(pairs, key) ==
    LET hits == {i \in 1..Len(pairs) : pairs[i][1] = key}
    IN  IF hits = {} THEN ""
        ELSE pairs[CHOOSE i \in hits : \A j \in hits : i <= j][2]

\* The session's conditions as (key, value) pairs.
ConditionPairs(b) ==
    [i \in 1..Len(b.Conditions) |->
        LET k == CHOOSE k \in DOMAIN b.Conditions[i] : TRUE
        IN  <<k, b.Conditions[i][k]>>]

\* The value of member name of a parsed JSON object with distinct member names.
ObjectMember(doc, name) == doc.v[CHOOSE i \in 1..Len(doc.v) : doc.v[i][1] = name][2]

\* doc, a parsed JSON value, is the policy document of session b.
IsPolicyOf(doc, b) ==
    /\ doc.t = "object"
    /\ Len(doc.v) = 2
    /\ {doc.v[1][1], doc.v[2][1]} = {"conditions", "expiration"}
    /\ LET conds == ObjectMember(doc, "conditions")
           exp   == ObjectMember(doc, "expiration")
       IN  /\ exp.t = "string"
           /\ exp.v = b.expiration
           /\ conds.t = "array"
           /\ Len(conds.v) = Len(b.Conditions)
           /\ \A i \in 1..Len(conds.v) :
                /\ conds.v[i].t = "object"
                /\ Len(conds.v[i].v) = 1
                /\ conds.v[i].v[1][2].t = "string"
                /\ DOMAIN b.Conditions[i] = {conds.v[i].v[1][1]}
                /\ b.Conditions[i][conds.v[i].v[1][1]] = conds.v[i].v[1][2].v

\* The base64 policy p64 decodes to the policy document of session b.
DecodesToPolicyOf(p64, b) ==
    Let(ParseJSON(DecodeString(p64)), LAMBDA doc : IsPolicyOf(doc, b))

\* The conditions of the policy that base64 text p64 carries, as (key, value) pairs;
\* << >> if p64 carries no policy.
PolicyConditions(p64) ==
    Let(ParseJSON(DecodeString(p64)), LAMBDA doc :
        IF doc.t = "object" /\ \E i \in 1..Len(doc.v) : doc.v[i][1] = "conditions"
        THEN Let(ObjectMember(doc, "conditions"), LAMBDA conds :
                 IF conds.t = "array"
                      /\ \A i \in 1..Len(conds.v) :
                           /\ conds.v[i].t = "object"
                           /\ Len(conds.v[i].v) = 1
                           /\ conds.v[i].v[1][2].t = "string"
                 THEN [i \in 1..Len(conds.v) |->
                          <<conds.v[i].v[1][1], conds.v[i].v[1][2].v>>]
                 ELSE << >>)
        ELSE << >>)

\* The bucket a virtual-hosted upload URL names: the first label of its host.
BucketOfURL(url) == SubSeq(url, 8, IndexFrom(url, ".", 8) - 1)

\* Wall clock w as YYYY-MM-DDTHH:MM:SS.000Z.
Stamp(w) ==
    FormatYMD(w) \o "T" \o Pad(w.hour, 2) \o ":" \o Pad(w.minute, 2) \o ":"
      \o Pad(w.second, 2) \o ".000Z"

\* The readings of "the instant plus minutes, formatted as YYYY-MM-DDTHH:MM:SS.000Z":
\* the digits of the wall clock in UTC, or those in the instant's own zone.
ExpirationTimestamps(instant, minutes) ==
    { Stamp(Wall([AddMinutes(instant, minutes) EXCEPT !.offMin = 0])),
      Stamp(Wall(AddMinutes(instant, minutes))) }

\* C1: the signature field of the bundle FormFields returns is
\* SignHex(DeriveSigningKey(secretKey, compactDate, region), P), P being the string in
\* the policy field of the same bundle.
C1_SignatureOverBundlePolicy ==
    ret.op = "FormFields" =>
        /\ Member(ret.bytes, "policy") # ""
        /\ Member(ret.bytes, "signature") =
             SignHex(DeriveSigningKey(config.SecretKey, bbu.dateString, config.Region),
                     Member(ret.bytes, "policy"))

\* FormFields returned for a session that holds added conditions.
C1_Witness == ret.op = "FormFields" /\ Len(added) >= 1

Encoding ==
    IF ret.op = "Policy" THEN ret.val
    ELSE IF ret.op = "Signature" THEN Signed(ret.val)
    ELSE Member(ret.bytes, "policy")

C3_PolicyDecodesToSession ==
    /\ ret.op = "Policy" => DecodesToPolicyOf(ret.val, bbu)
    /\ ret.op = "FormFields" => DecodesToPolicyOf(Member(ret.bytes, "policy"), bbu)

\* Policy() returned for a session whose last condition has a value that JSON escapes.
C3_Witness ==
    /\ ret.op = "Policy"
    /\ Len(added) = 2
    /\ added[2] = <<"key", "q\"<b>">>

\* C4: right after NewBBU the session holds exactly the four default conditions, in the
\* order bucket, x-amz-credential, x-amz-algorithm, x-amz-date.
C4_NewBBUDefaults ==
    ret.op = "NewBBU" => bbu.Conditions = DefaultConditions(bbu, config)

\* NewBBU was called on a client whose earlier session held added conditions.
C4_Witness == ret.op = "NewBBU" /\ ret.prior > 4

\* C5: the condition list is the four defaults followed by the added conditions in call
\* order, and AddCondition has put its condition last.
C5_AppendsExactlyOne ==
    bbu # Nil =>
        /\ bbu.Conditions =
             DefaultConditions(bbu, config)
               \o [i \in 1..Len(added) |-> (added[i][1] :> added[i][2])]
        /\ ret.op = "AddCondition" =>
             bbu.Conditions[Len(bbu.Conditions)] = (ret.key :> ret.value)

\* AddCondition was called with a key the list already holds twice.
C5_Witness ==
    /\ ret.op = "AddCondition"
    /\ Len(added) = 2
    /\ added[1][1] = "bucket"
    /\ added[2][1] = "bucket"

\* C6: FormFields fills key and success_action_redirect with the value of the first
\* condition in insertion order that has the key, "" when none has, and reports no error.
C6_LookupFirstMatch ==
    ret.op = "FormFields" =>
        /\ ~ret.err
        /\ Member(ret.bytes, "key") = FirstValue(ConditionPairs(bbu), "key")
        /\ Member(ret.bytes, "success_action_redirect") =
             FirstValue(ConditionPairs(bbu), "success_action_redirect")

\* FormFields returned for a session with two different key conditions and no redirect.
C6_Witness ==
    /\ ret.op = "FormFields"
    /\ Len(added) = 2
    /\ added[1][1] = "key"
    /\ added[2][1] = "key"
    /\ added[1][2] # added[2][2]

\* C7 as stated: the expiration NewBBU computes is the instant plus minutesToExpiry
\* formatted as YYYY-MM-DDTHH:MM:SS.000Z, with no numeric offset and one .000Z suffix.
C7_ExpirationFormat ==
    ret.op = "NewBBU" =>
        bbu.expiration \in ExpirationTimestamps(ret.now, ret.minutesToExpiry)

\* C8: FormFields leaves the session as it was, and the FormFields calls made since the
\* conditions last changed all returned the same bytes.
C8_FormFieldsPure ==
    /\ ret.op = "FormFields" => (bbu = ret.pre /\ ret.seen \subseteq {ret.bytes})
    /\ Cardinality(ffOut) <= 1

\* FormFields returned again, with no AddCondition since its earlier call.
C8_Witness == ret.op = "FormFields" /\ ret.seen # {} /\ Len(added) >= 1

\* C9 as stated: a call during which the JSON encoding of the policy failed reports the
\* failure; it returns neither an empty policy nor a signature over an empty policy.
C9_MarshalFailureSurfaced ==
    (ret.op \in {"Policy", "Signature", "FormFields"} /\ ret.marshalErr) =>
        /\ ret.op = "Policy" => ret.val # ""
        /\ ret.op = "Signature" => Signed(ret.val) # ""
        /\ ret.op = "FormFields" => ret.err

\* C10: the bundle FormFields returns agrees with the first x-amz-credential,
\* x-amz-date, x-amz-algorithm and bucket conditions of the policy it carries.
C10_BundleAgreesWithPolicy ==
    ret.op = "FormFields" =>
        Let(PolicyConditions(Member(ret.bytes, "policy")), LAMBDA conds :
            /\ conds # << >>
            /\ Member(ret.bytes, "x_amz_credential") = FirstValue(conds, "x-amz-credential")
            /\ Member(ret.bytes, "x_amz_date") = FirstValue(conds, "x-amz-date")
            /\ Member(ret.bytes, "x_amz_algorithm") = FirstValue(conds, "x-amz-algorithm")
            /\ BucketOfURL(Member(ret.bytes, "url")) = FirstValue(conds, "bucket"))

\* FormFields returned for a session to which a second credential and a second bucket
\* condition were added.
C10_Witness ==
    /\ ret.op = "FormFields"
    /\ Len(added) = 2
    /\ {added[1][1], added[2][1]} = {"x-amz-credential", "bucket"}

====
